---- MODULE Spec2Model ----
(***************************************************************************)
(* Asynchronous job orchestration of the Sora video stitcher:              *)
(*   - RedisService (job records and task mappings with a TTL),            *)
(*   - JobProcessor (processCallback, processStitching, handleJobFailure), *)
(*   - VideoService (processVideos, withConcurrencyControl, stitchVideos). *)
(*                                                                         *)
(* Node.js runs one event loop: the code between two awaits is one atomic  *)
(* step, and every await of an I/O operation (a Redis command, an Airtable *)
(* request, a download, an ffmpeg run, a file removal) is a point where    *)
(* other callbacks interleave.  Each action below is one such step.        *)
(***************************************************************************)
EXTENDS Integers, Sequences, FiniteSets, TLC

\* ---- bounds of the model ------------------------------------------------
MaxCallbacks == 2     \* callback deliveries (processCallback executions)
MaxCallers == 3       \* jobs that become ready together (callers of processVideos)
MaxTicks == 1         \* clock ticks the model follows
TickSeconds == 3600   \* seconds per clock tick
MaxHalfTicks == 2      \* clock ticks of the retention model
HalfTickSeconds == 1800  \* seconds per clock tick of the retention model

\* ---- program constants ---------------------------------------------------
Ttl == 3600                 \* config.job.ttl, seconds
DefaultConcurrentJobs == 1  \* VideoService constructor: this.maxConcurrentJobs = 1
ReadmeConcurrentJobs == 2   \* README: this.maxConcurrentJobs = 2

\* ---- values ---------------------------------------------------------------
Null == "null"        \* JS null / undefined of a string-valued field
NoTime == -1          \* JS undefined of a timestamp field

JobIds == {"job1", "job2", "job3", "job4"}
RecordIds == {"rec1", "rec2", "rec3", "rec4"}
\* The two tasks of each job, and tX, which is never mapped to a job.
TaskIds == {"t1", "t2", "t3", "t4", "t5", "t6", "t7", "t8", "tX"}
Callbacks == 1..MaxCallbacks
Callers == 1..MaxCallers
Dispatchers == {0}
Queriers == {-1}
Procs == Callbacks \cup Callers \cup Dispatchers \cup Queriers

VARIABLES
  now,        \* Date.now(), in seconds
  redis,      \* RedisService.redis is set (Upstash is configured)
  jobs,       \* Redis: job:<jobId> -> job record
  jobExp,     \* Redis: expiry time of job:<jobId> (key absent when now >= expiry)
  tasks,      \* Redis: task:<taskId> -> [jobId, videoNumber]
  taskExp,    \* Redis: expiry time of task:<taskId>
  sent,       \* Sora: the payloads of the callbacks it has sent for each task, in order
  airtable,   \* Airtable: the record's Status, Error and Video fields
  hosted,     \* temporary file host: the uploads it received, per record
  files,      \* the files in config.video.tempDir
  isProcessing, \* VideoService.isProcessing
  queue,      \* VideoService.queue: the callers whose operation waits
  maxConcurrentJobs, \* VideoService.maxConcurrentJobs
  cb          \* the processCallback executions: position and local variables

vars == <<now, redis, jobs, jobExp, tasks, taskExp, sent, airtable, hosted, files,
          isProcessing, queue, maxConcurrentJobs, cb>>

redisVars == <<redis, jobs, jobExp, tasks, taskExp>>
videoVars == <<files, isProcessing, queue>>

\* ---- RedisService ----------------------------------------------------------

\* createJob: the record written at dispatch.
createJob(jobId, recordId) ==
  [jobId |-> jobId, status |-> "pending", createdAt |-> now, recordId |-> recordId,
   taskId1 |-> Null, taskId2 |-> Null,
   video1Url |-> Null, video2Url |-> Null,
   video1Status |-> Null, video2Status |-> Null,
   error |-> Null, failedAt |-> NoTime, completedAt |-> NoTime,
   stitchedVideoPath |-> Null, updatedAt |-> NoTime]

\* The merge with the spreads in the wrong order, { ...updates, ...job }: a
\* field the job already has keeps its value.
updatedJobSpreadReversed(job, updates) ==
  [f \in DOMAIN job |->
     IF f = "updatedAt" THEN now
     ELSE IF f \in DOMAIN updates /\ job[f] = (IF f \in {"failedAt", "completedAt"} THEN NoTime ELSE Null)
          THEN updates[f]
     ELSE job[f]]

\* updateJob's merge: { ...job, ...updates, updatedAt: Date.now() }.
updatedJob(job, updates) ==
  [f \in DOMAIN job |->
     IF f = "updatedAt" THEN now
     ELSE IF f \in DOMAIN updates THEN updates[f]
     ELSE job[f]]

\* getJob: the set holding the stored record, empty when the key is absent.
getJob(jobId) ==
  IF redis /\ jobId \in DOMAIN jobs /\ now < jobExp[jobId] THEN {jobs[jobId]} ELSE {}

\* getJobFromTask without its check of a missing key.
getJobFromTaskUnchecked(taskId) == {tasks[taskId]}

\* getJobFromTask: the set holding the mapping, empty when the key is absent.
getJobFromTask(taskId) == IF redis /\ now < taskExp[taskId] THEN {tasks[taskId]} ELSE {}

\* areBothVideosReady with || in place of &&: one video is enough.
areBothVideosReadyEither(got) ==
  /\ got # {}
  /\ \A job \in got : job.video1Url # Null \/ job.video2Url # Null

\* areBothVideosReady's result on what getJob returned.
areBothVideosReady(got) ==
  /\ got # {}
  /\ \A job \in got : job.video1Url # Null /\ job.video2Url # Null

\* storeVideoUrl with the two field names exchanged.
VideoUrlFieldSwapped(videoNumber) == IF videoNumber = 1 THEN "video2Url" ELSE "video1Url"

\* storeVideoUrl's field name.
VideoUrlField(videoNumber) == IF videoNumber = 1 THEN "video1Url" ELSE "video2Url"

VideoStatusField(videoNumber) == IF videoNumber = 1 THEN "video1Status" ELSE "video2Status"

\* ---- SoraService -----------------------------------------------------------

\* The payload of a task that succeeded, with the URL of its video.
SuccessPayload == [state |-> "success", resultUrl |-> TRUE, failMsg |-> Null]

\* The payloads a callback can carry, by what processCallback reads of them:
\* state, resultJson.resultUrls[0] (present or not) and failMsg.
Payloads ==
  { SuccessPayload,
    [state |-> "success", resultUrl |-> FALSE, failMsg |-> Null],
    [state |-> "generating", resultUrl |-> FALSE, failMsg |-> Null],
    [state |-> "fail", resultUrl |-> FALSE, failMsg |-> "quota exceeded"],
    [state |-> "fail", resultUrl |-> FALSE, failMsg |-> Null] }

\* The URL of the video Sora rendered for a task.
ResultUrl(taskId) == "https://sora/" \o taskId \o ".mp4"

\* getTaskError: the error message, Null when the task did not fail.
getTaskError(data) ==
  IF data.state = "fail"
  THEN (IF data.failMsg # Null THEN data.failMsg ELSE "Unknown error")
  ELSE Null

\* extractVideoUrl: resultUrls[0] of a successful task, else Null.
extractVideoUrl(taskId, data) ==
  IF data.state # "success" THEN Null
  ELSE IF data.resultUrl THEN ResultUrl(taskId) ELSE Null

\* ---- processCallback executions ---------------------------------------------

NoJob == [createJob(Null, Null) EXCEPT !.status = Null, !.createdAt = NoTime]

\* A callback that has not been delivered yet.
IdleCb ==
  [pc |-> "idle", taskId |-> Null, data |-> CHOOSE d \in Payloads : d.state = "generating",
   jobId |-> Null, videoNumber |-> 0, videoUrl |-> Null,
   upd |-> NoJob,            \* updateJob: the job it read
   bothReady |-> FALSE,      \* processCallback: const bothReady
   errorMessage |-> Null,    \* handleJobFailure: errorMessage
   hfRecordId |-> Null,      \* handleJobFailure: job?.recordId
   hfRet |-> Null,           \* how the caller of handleJobFailure ends
   video1Url |-> Null, video2Url |-> Null, recordId |-> Null,   \* processStitching
   stitchedVideoPath |-> Null,                                  \* processStitching
   timestamp |-> NoTime,     \* processVideos: const timestamp
   dl |-> <<"none", "none">>, \* processVideos: the two downloadVideo calls
   listFilePath |-> Null,    \* stitchVideos: listFilePath
   res |-> 0,                \* handleSoraCallback: the status of the response sent, 0 if none
   prompt1 |-> Null,         \* generateAndStitch: req.body.prompt1
   prompt2 |-> Null,         \* generateAndStitch: req.body.prompt2
   created |-> <<"none", "none">>,  \* generateAndStitch: the two createTask calls
   mapped |-> <<"none", "none">>,   \* generateAndStitch: the two mapTaskToJob calls
   late |-> FALSE]           \* history: the job was terminal when the callback arrived

Val(s) == CHOOSE x \in s : TRUE

SetCb(p, r) == cb' = [cb EXCEPT ![p] = r]

\* The end of processCallback: its promise resolves ("returned") or rejects ("threw").
Finish(r, how) == [IdleCb EXCEPT !.pc = how, !.taskId = r.taskId, !.late = r.late,
                                 !.data = r.data,
                                 !.created = r.created, !.mapped = r.mapped,
                                 !.res = r.res,
                                 !.videoUrl = r.videoUrl,
                                 !.jobId = r.jobId, !.videoNumber = r.videoNumber,
                                 !.bothReady = r.bothReady, !.dl = r.dl,
                                 !.timestamp = r.timestamp,
                                 !.stitchedVideoPath = r.stitchedVideoPath]

\* updateJob, up to its await of redis.get.
updateJobRead(p, writePc, after) ==
  LET got == getJob(cb[p].jobId) IN
  IF got = {}
  THEN SetCb(p, after)                                   \* returns null, writes nothing
  ELSE SetCb(p, [cb[p] EXCEPT !.upd = Val(got), !.pc = writePc])

\* updateJob with a redis.set that keeps the remaining TTL of the key.
updateJobWriteKeepTtl(p, updates, after) ==
  /\ jobs' = [jobs EXCEPT ![cb[p].jobId] = updatedJob(cb[p].upd, updates)]
  /\ jobExp' = jobExp
  /\ SetCb(p, [after EXCEPT !.upd = NoJob])

\* updateJob, its redis.set of the merged record with a fresh TTL.
updateJobWrite(p, updates, after) ==
  /\ jobs' = [jobs EXCEPT ![cb[p].jobId] = updatedJob(cb[p].upd, updates)]
  /\ jobExp' = [jobExp EXCEPT ![cb[p].jobId] = now + Ttl]
  /\ SetCb(p, [after EXCEPT !.upd = NoJob])

\* handleJobFailure, up to updateJob's await of redis.get.
handleJobFailure(r, recordId, errorMessage, ret) ==
  [r EXCEPT !.pc = "hf_read", !.hfRecordId = recordId,
            !.errorMessage = errorMessage, !.hfRet = ret]

\* handleJobFailure after its updateJob: the Airtable update when job?.recordId.
AfterFailureUpdate(r) ==
  IF r.hfRecordId # Null THEN [r EXCEPT !.pc = "hf_airtable"] ELSE Finish(r, r.hfRet)

\* The job of task t is stored with a terminal status.
IsTerminalFor(t) ==
  \E m \in getJobFromTask(t) : \E job \in getJob(m.jobId) :
     job.status \in {"completed", "failed"}

\* handleSoraCallback awaiting processCallback before it responds: no response
\* has been sent when processCallback is at its first await.
DeliverAwaited(p, t, data) ==
  /\ cb[p].pc = "idle"
  /\ \A q \in Callbacks : q < p => cb[q].pc # "idle"
  /\ SetCb(p, [cb[p] EXCEPT !.pc = "cb_getJobFromTask", !.taskId = t, !.data = data,
                            !.late = IsTerminalFor(t)])
  /\ sent' = [sent EXCEPT ![t] = Append(@, data)]
  /\ UNCHANGED <<now, redisVars, airtable, hosted, videoVars, maxConcurrentJobs>>

\* handleSoraCallback: processCallback(taskId, taskData) starts, not awaited,
\* and runs to its first await; then res.status(200) is sent.
Deliver(p, t, data) ==
  /\ cb[p].pc = "idle"
  /\ \A q \in Callbacks : q < p => cb[q].pc # "idle"
  /\ SetCb(p, [cb[p] EXCEPT !.pc = "cb_getJobFromTask", !.taskId = t, !.data = data,
                            !.late = IsTerminalFor(t), !.res = 200])
  /\ sent' = [sent EXCEPT ![t] = Append(@, data)]
  /\ UNCHANGED <<now, redisVars, airtable, hosted, videoVars, maxConcurrentJobs>>

\* processCallback: const taskMapping = await redisService.getJobFromTask(taskId).
CbGetJobFromTask(p) ==
  /\ cb[p].pc = "cb_getJobFromTask"
  /\ LET got == getJobFromTask(cb[p].taskId) IN
     IF got = {}
     THEN SetCb(p, Finish(cb[p], "returned"))
     ELSE SetCb(p, [cb[p] EXCEPT !.pc = "cb_getJob", !.jobId = Val(got).jobId,
                                 !.videoNumber = Val(got).videoNumber])
  /\ UNCHANGED <<now, redisVars, sent, airtable, hosted, videoVars, maxConcurrentJobs>>

\* processCallback returning when extractVideoUrl finds no URL, so that the job
\* goes on waiting.
CbGetJobWaiting(p) ==
  /\ cb[p].pc = "cb_getJob"
  /\ LET got == getJob(cb[p].jobId)
         error == getTaskError(cb[p].data)
         videoUrl == extractVideoUrl(cb[p].taskId, cb[p].data)
         n == ToString(cb[p].videoNumber)
     IN
     IF got = {}
     THEN SetCb(p, Finish(cb[p], "returned"))
     ELSE IF error # Null
     THEN SetCb(p, handleJobFailure(cb[p], Val(got).recordId,
                     "Video " \o n \o " generation failed: " \o error, "returned"))
     ELSE IF videoUrl = Null
     THEN SetCb(p, Finish(cb[p], "returned"))
     ELSE SetCb(p, [cb[p] EXCEPT !.pc = "cb_store_read", !.videoUrl = videoUrl])
  /\ UNCHANGED <<now, redisVars, sent, airtable, hosted, videoVars, maxConcurrentJobs>>

\* processCallback: const job = await redisService.getJob(jobId), then the
\* branches on getTaskError and extractVideoUrl up to the next await.
CbGetJob(p) ==
  /\ cb[p].pc = "cb_getJob"
  /\ LET got == getJob(cb[p].jobId)
         error == getTaskError(cb[p].data)
         videoUrl == extractVideoUrl(cb[p].taskId, cb[p].data)
         n == ToString(cb[p].videoNumber)
     IN
     IF got = {}
     THEN SetCb(p, Finish(cb[p], "returned"))
     ELSE IF error # Null
     THEN SetCb(p, handleJobFailure(cb[p], Val(got).recordId,
                     "Video " \o n \o " generation failed: " \o error, "returned"))
     ELSE IF videoUrl = Null
     THEN SetCb(p, handleJobFailure(cb[p], Val(got).recordId,
                     "Video " \o n \o " generation completed but no URL found", "returned"))
     ELSE SetCb(p, [cb[p] EXCEPT !.pc = "cb_store_read", !.videoUrl = videoUrl])
  /\ UNCHANGED <<now, redisVars, sent, airtable, hosted, videoVars, maxConcurrentJobs>>

\* storeVideoUrl -> updateJob: const job = await this.getJob(jobId).
CbStoreRead(p) ==
  /\ cb[p].pc = "cb_store_read"
  /\ updateJobRead(p, "cb_store_write", [cb[p] EXCEPT !.pc = "cb_areBothVideosReady"])
  /\ UNCHANGED <<now, redisVars, sent, airtable, hosted, videoVars, maxConcurrentJobs>>

\* storeVideoUrl -> updateJob: await this.redis.set(...).
CbStoreWrite(p) ==
  /\ cb[p].pc = "cb_store_write"
  /\ updateJobWrite(p, (VideoUrlField(cb[p].videoNumber) :> cb[p].videoUrl),
                    [cb[p] EXCEPT !.pc = "cb_areBothVideosReady"])
  /\ UNCHANGED <<now, redis, tasks, taskExp, sent, airtable, hosted, videoVars, maxConcurrentJobs>>

\* processCallback: const bothReady = await redisService.areBothVideosReady(jobId);
\* then processStitching up to its getJob, or updateJob up to its getJob.
CbAreBothVideosReady(p) ==
  /\ cb[p].pc = "cb_areBothVideosReady"
  /\ LET bothReady == areBothVideosReady(getJob(cb[p].jobId)) IN
     SetCb(p, [cb[p] EXCEPT !.bothReady = bothReady,
                            !.pc = IF bothReady THEN "ps_getJob" ELSE "cb_wait_read"])
  /\ UNCHANGED <<now, redisVars, sent, airtable, hosted, videoVars, maxConcurrentJobs>>

\* processCallback, waiting for the other video: updateJob's getJob.
CbWaitRead(p) ==
  /\ cb[p].pc = "cb_wait_read"
  /\ updateJobRead(p, "cb_wait_write", Finish(cb[p], "returned"))
  /\ UNCHANGED <<now, redisVars, sent, airtable, hosted, videoVars, maxConcurrentJobs>>

\* processCallback, waiting for the other video: updateJob's redis.set of
\* { status: 'processing', video<N>Status: 'ready' }.
CbWaitWrite(p) ==
  /\ cb[p].pc = "cb_wait_write"
  /\ updateJobWrite(p, ("status" :> "processing") @@
                       (VideoStatusField(cb[p].videoNumber) :> "ready"),
                    Finish(cb[p], "returned"))
  /\ UNCHANGED <<now, redis, tasks, taskExp, sent, airtable, hosted, videoVars, maxConcurrentJobs>>

\* handleJobFailure -> updateJob: const job = await this.getJob(jobId).
HfRead(p) ==
  /\ cb[p].pc = "hf_read"
  /\ updateJobRead(p, "hf_write", AfterFailureUpdate(cb[p]))
  /\ UNCHANGED <<now, redisVars, sent, airtable, hosted, videoVars, maxConcurrentJobs>>

\* handleJobFailure -> updateJob: redis.set of { status: 'failed', error, failedAt }.
HfWrite(p) ==
  /\ cb[p].pc = "hf_write"
  /\ updateJobWrite(p, [status |-> "failed", error |-> cb[p].errorMessage, failedAt |-> now],
                    AfterFailureUpdate(cb[p]))
  /\ UNCHANGED <<now, redis, tasks, taskExp, sent, airtable, hosted, videoVars, maxConcurrentJobs>>

\* airtableService.updateRecordStatus: the fields it sends, Error only when given.
updateRecordStatus(recordId, status, error) ==
  airtable' = [airtable EXCEPT ![recordId] =
                 [@ EXCEPT !.Status = status,
                           !.Error = IF error # Null THEN error ELSE @]]

\* handleJobFailure: await airtableService.updateRecordStatus(recordId, 'Failed', errorMessage).
HfAirtable(p) ==
  /\ cb[p].pc = "hf_airtable"
  /\ updateRecordStatus(cb[p].hfRecordId, "Failed", cb[p].errorMessage)
  /\ SetCb(p, Finish(cb[p], cb[p].hfRet))
  /\ UNCHANGED <<now, redisVars, sent, hosted, videoVars, maxConcurrentJobs>>

\* ---- VideoService ----------------------------------------------------------------

VideoPath(i, timestamp) == "video" \o ToString(i) \o "_" \o ToString(timestamp) \o ".mp4"
StitchedPath(timestamp) == "stitched_" \o ToString(timestamp) \o ".mp4"
InputPaths(r) == {VideoPath(1, r.timestamp), VideoPath(2, r.timestamp)}

\* The callers whose operation is between its start and its completion.
Running == {p \in Procs : cb[p].pc \in {"sv_writeFile", "sv_ffmpeg", "sv_end_remove",
                                             "sv_error_remove_list", "sv_error_remove_output"}}

\* stitchVideos up to its await of fs.writeFile(listFilePath, concatList).
stitchVideos(r) ==
  [r EXCEPT !.pc = "sv_writeFile", !.listFilePath = "concat_" \o ToString(now) \o ".txt"]

\* withConcurrencyControl(operation), up to its first await: the operation is
\* queued when isProcessing, else isProcessing is set and the operation started.
withConcurrencyControl(p, r) ==
  IF isProcessing
  THEN /\ queue' = Append(queue, p)
       /\ isProcessing' = isProcessing
       /\ SetCb(p, [r EXCEPT !.pc = "wcc_queued"])
  ELSE /\ isProcessing' = TRUE
       /\ queue' = queue
       /\ SetCb(p, stitchVideos(r))

\* The finally block without the start of the next queued operation.
finallyNoHandOff(p, r) ==
  /\ isProcessing' = FALSE
  /\ queue' = queue
  /\ SetCb(p, r)

\* The finally block passing the rejection of the operation that ended to the
\* next queued caller, whose operation is not run.
finallyRejectNext(p, r) ==
  IF queue = <<>>
  THEN /\ isProcessing' = FALSE
       /\ queue' = queue
       /\ SetCb(p, r)
  ELSE IF r.pc = "pv_catch_deleteFiles"
  THEN /\ isProcessing' = FALSE
       /\ queue' = Tail(queue)
       /\ cb' = [cb EXCEPT ![p] = r,
                           ![Head(queue)] = [cb[Head(queue)] EXCEPT !.pc = "pv_catch_deleteFiles"]]
  ELSE /\ isProcessing' = TRUE
       /\ queue' = Tail(queue)
       /\ cb' = [cb EXCEPT ![p] = r, ![Head(queue)] = stitchVideos(cb[Head(queue)])]

\* The finally block taking the operation queued last (pop in place of shift).
finallyPop(p, r) ==
  IF queue = <<>>
  THEN /\ isProcessing' = FALSE
       /\ queue' = queue
       /\ SetCb(p, r)
  ELSE /\ isProcessing' = TRUE
       /\ queue' = SubSeq(queue, 1, Len(queue) - 1)
       /\ cb' = [cb EXCEPT ![p] = r,
                           ![queue[Len(queue)]] = stitchVideos(cb[queue[Len(queue)]])]

\* The finally block with isProcessing = false moved after the start of the
\* next operation.
finallyReleaseLast(p, r) ==
  /\ isProcessing' = FALSE
  /\ IF queue = <<>>
     THEN queue' = queue /\ SetCb(p, r)
     ELSE /\ queue' = Tail(queue)
          /\ cb' = [cb EXCEPT ![p] = r, ![Head(queue)] = stitchVideos(cb[Head(queue)])]

\* withConcurrencyControl's finally block, run when the operation of p has
\* settled and p goes on as r: isProcessing = false, then the next queued
\* operation is shifted and started by the nested withConcurrencyControl call.
finally(p, r) ==
  IF queue = <<>>
  THEN /\ isProcessing' = FALSE
       /\ queue' = queue
       /\ SetCb(p, r)
  ELSE /\ isProcessing' = TRUE
       /\ queue' = Tail(queue)
       /\ cb' = [cb EXCEPT ![p] = r, ![Head(queue)] = stitchVideos(cb[Head(queue)])]

\* ---- processStitching ---------------------------------------------------------------

\* The catch block of processStitching without its deleteFile.
catchStitchingNoDelete(r, message) ==
  [r EXCEPT !.errorMessage = "Stitching/upload failed: " \o message,
            !.pc = "ps_catch_getJob"]

\* processStitching's catch block up to its first await: deleteFile of the
\* stitched video if there is one, else getJob.
catchStitching(r, message) ==
  [r EXCEPT !.errorMessage = "Stitching/upload failed: " \o message,
            !.pc = IF r.stitchedVideoPath # Null THEN "ps_catch_delete" ELSE "ps_catch_getJob"]

\* processVideos up to its await of Promise.all of the two downloads.
processVideos(r) ==
  [r EXCEPT !.pc = "pv_download", !.timestamp = now, !.dl = <<"running", "running">>]

\* processStitching after updateJob({ status: 'stitching' }).
AfterStitchingUpdate(r) ==
  IF r.recordId # Null THEN [r EXCEPT !.pc = "ps_airtable_stitching"] ELSE processVideos(r)

\* processStitching: const job = await redisService.getJob(jobId).
PsGetJob(p) ==
  /\ cb[p].pc = "ps_getJob"
  /\ LET got == getJob(cb[p].jobId) IN
     IF got = {}
     THEN SetCb(p, catchStitching(cb[p], "Job not found"))
     ELSE SetCb(p, [cb[p] EXCEPT !.pc = "ps_stitching_read",
                                 !.video1Url = Val(got).video1Url,
                                 !.video2Url = Val(got).video2Url,
                                 !.recordId = Val(got).recordId])
  /\ UNCHANGED <<now, redisVars, sent, airtable, hosted, videoVars, maxConcurrentJobs>>

\* updateJob(jobId, { status: 'stitching' }): its getJob.
PsStitchingRead(p) ==
  /\ cb[p].pc = "ps_stitching_read"
  /\ updateJobRead(p, "ps_stitching_write", AfterStitchingUpdate(cb[p]))
  /\ UNCHANGED <<now, redisVars, sent, airtable, hosted, videoVars, maxConcurrentJobs>>

\* updateJob(jobId, { status: 'stitching' }): its redis.set.
PsStitchingWrite(p) ==
  /\ cb[p].pc = "ps_stitching_write"
  /\ updateJobWrite(p, [status |-> "stitching"], AfterStitchingUpdate(cb[p]))
  /\ UNCHANGED <<now, redis, tasks, taskExp, sent, airtable, hosted, videoVars, maxConcurrentJobs>>

\* await airtableService.updateRecordStatus(recordId, 'Stitching'), then processVideos.
PsAirtableStitching(p) ==
  /\ cb[p].pc = "ps_airtable_stitching"
  /\ updateRecordStatus(cb[p].recordId, "Stitching", Null)
  /\ SetCb(p, processVideos(cb[p]))
  /\ UNCHANGED <<now, redisVars, sent, hosted, videoVars, maxConcurrentJobs>>

\* The downloads run inside withConcurrencyControl as well: no download ends
\* while an operation of another caller holds isProcessing.
PvDownloadSerialized(p, i, ok) ==
  /\ cb[p].dl[i] = "running"
  /\ Running \ {p} = {}
  /\ LET r == [cb[p] EXCEPT !.dl[i] = IF ok THEN "done" ELSE "failed"] IN
     /\ files' = IF ok THEN files \cup {VideoPath(i, r.timestamp)} ELSE files
     /\ IF r.pc # "pv_download"
        THEN SetCb(p, r) /\ UNCHANGED <<isProcessing, queue>>
        ELSE IF ~ok
        THEN /\ SetCb(p, catchStitching(r, "Failed to download video"))
             /\ UNCHANGED <<isProcessing, queue>>
        ELSE IF r.dl = <<"done", "done">>
        THEN withConcurrencyControl(p, r)
        ELSE SetCb(p, r) /\ UNCHANGED <<isProcessing, queue>>
  /\ UNCHANGED <<now, redisVars, sent, airtable, hosted, maxConcurrentJobs>>

\* One downloadVideo of processVideos ends.  Promise.all resolves when both have
\* succeeded (then withConcurrencyControl is entered) and rejects at the first
\* failure (then processVideos' catch finds video1Path and video2Path undefined,
\* deletes nothing and rethrows); the other download goes on after a rejection.
PvDownload(p, i, ok) ==
  /\ cb[p].dl[i] = "running"
  /\ LET r == [cb[p] EXCEPT !.dl[i] = IF ok THEN "done" ELSE "failed"] IN
     /\ files' = IF ok THEN files \cup {VideoPath(i, r.timestamp)} ELSE files
     /\ IF r.pc # "pv_download"
        THEN SetCb(p, r) /\ UNCHANGED <<isProcessing, queue>>
        ELSE IF ~ok
        THEN /\ SetCb(p, catchStitching(r, "Failed to download video"))
             /\ UNCHANGED <<isProcessing, queue>>
        ELSE IF r.dl = <<"done", "done">>
        THEN withConcurrencyControl(p, r)
        ELSE SetCb(p, r) /\ UNCHANGED <<isProcessing, queue>>
  /\ UNCHANGED <<now, redisVars, sent, airtable, hosted, maxConcurrentJobs>>

\* stitchVideos: await fs.writeFile(listFilePath, concatList), then ffmpeg is run.
SvWriteFile(p) ==
  /\ cb[p].pc = "sv_writeFile"
  /\ files' = files \cup {cb[p].listFilePath}
  /\ SetCb(p, [cb[p] EXCEPT !.pc = "sv_ffmpeg"])
  /\ UNCHANGED <<now, redisVars, sent, airtable, hosted, isProcessing, queue,
                 maxConcurrentJobs>>

\* ffmpeg ends ('end') or fails ('error', a partial output left); the handler
\* awaits fs.remove(listFilePath).
SvFfmpeg(p, ok) ==
  /\ cb[p].pc = "sv_ffmpeg"
  /\ files' = files \cup {StitchedPath(cb[p].timestamp)}
  /\ SetCb(p, [cb[p] EXCEPT !.pc = IF ok THEN "sv_end_remove" ELSE "sv_error_remove_list"])
  /\ UNCHANGED <<now, redisVars, sent, airtable, hosted, isProcessing, queue,
                 maxConcurrentJobs>>

\* 'end' handler: the list file is removed and the promise resolves; the finally
\* block of withConcurrencyControl runs; processVideos goes on to deleteFiles.
SvEndRemove(p) ==
  /\ cb[p].pc = "sv_end_remove"
  /\ files' = files \ {cb[p].listFilePath}
  /\ finally(p, [cb[p] EXCEPT !.pc = "pv_deleteFiles", !.listFilePath = Null,
                              !.stitchedVideoPath = StitchedPath(cb[p].timestamp)])
  /\ UNCHANGED <<now, redisVars, sent, airtable, hosted, maxConcurrentJobs>>

\* 'error' handler: await fs.remove(listFilePath).
SvErrorRemoveList(p) ==
  /\ cb[p].pc = "sv_error_remove_list"
  /\ files' = files \ {cb[p].listFilePath}
  /\ SetCb(p, [cb[p] EXCEPT !.pc = "sv_error_remove_output", !.listFilePath = Null])
  /\ UNCHANGED <<now, redisVars, sent, airtable, hosted, isProcessing, queue,
                 maxConcurrentJobs>>

\* 'error' handler: await fs.remove(outputPath), then the promise rejects; the
\* finally block runs; processVideos' catch goes on to deleteFiles.
SvErrorRemoveOutput(p) ==
  /\ cb[p].pc = "sv_error_remove_output"
  /\ files' = files \ {StitchedPath(cb[p].timestamp)}
  /\ finally(p, [cb[p] EXCEPT !.pc = "pv_catch_deleteFiles"])
  /\ UNCHANGED <<now, redisVars, sent, airtable, hosted, maxConcurrentJobs>>

\* processStitching after processVideos returned stitchedVideoPath.
AfterProcessVideos(r) ==
  [r EXCEPT !.pc = IF r.recordId # Null THEN "ps_uploading_read" ELSE "ps_completed_read"]

\* processVideos: await this.deleteFiles([video1Path, video2Path]); return stitchedPath.
PvDeleteFiles(p) ==
  /\ cb[p].pc = "pv_deleteFiles"
  /\ files' = files \ InputPaths(cb[p])
  /\ SetCb(p, AfterProcessVideos(cb[p]))
  /\ UNCHANGED <<now, redisVars, sent, airtable, hosted, isProcessing, queue,
                 maxConcurrentJobs>>

\* processVideos' catch after a failed stitch: deleteFiles([video1Path, video2Path]); throw.
PvCatchDeleteFiles(p) ==
  /\ cb[p].pc = "pv_catch_deleteFiles"
  /\ files' = files \ InputPaths(cb[p])
  /\ SetCb(p, catchStitching(cb[p], "Failed to stitch videos"))
  /\ UNCHANGED <<now, redisVars, sent, airtable, hosted, isProcessing, queue,
                 maxConcurrentJobs>>

\* updateJob(jobId, { status: 'uploading' }): its getJob.
PsUploadingRead(p) ==
  /\ cb[p].pc = "ps_uploading_read"
  /\ updateJobRead(p, "ps_uploading_write", [cb[p] EXCEPT !.pc = "ps_upload"])
  /\ UNCHANGED <<now, redisVars, sent, airtable, hosted, videoVars, maxConcurrentJobs>>

\* updateJob(jobId, { status: 'uploading' }): its redis.set.
PsUploadingWrite(p) ==
  /\ cb[p].pc = "ps_uploading_write"
  /\ updateJobWrite(p, [status |-> "uploading"], [cb[p] EXCEPT !.pc = "ps_upload"])
  /\ UNCHANGED <<now, redis, tasks, taskExp, sent, airtable, hosted, videoVars, maxConcurrentJobs>>

\* airtableService.uploadVideoAttachment: the file is read, sent to a temporary
\* host and attached to the record; any failure (also the file missing) throws.
PsUpload(p, ok) ==
  /\ cb[p].pc = "ps_upload"
  /\ IF ok /\ cb[p].stitchedVideoPath \in files
     THEN /\ hosted' = [hosted EXCEPT ![cb[p].recordId] = @ + 1]
          /\ airtable' = [airtable EXCEPT ![cb[p].recordId].Video = cb[p].stitchedVideoPath]
          /\ SetCb(p, [cb[p] EXCEPT !.pc = "ps_airtable_completed"])
     ELSE /\ UNCHANGED <<hosted, airtable>>
          /\ SetCb(p, catchStitching(cb[p], "Failed to upload video to Airtable"))
  /\ UNCHANGED <<now, redisVars, sent, videoVars, maxConcurrentJobs>>

\* await airtableService.updateRecordStatus(recordId, 'Completed').
PsAirtableCompleted(p) ==
  /\ cb[p].pc = "ps_airtable_completed"
  /\ updateRecordStatus(cb[p].recordId, "Completed", Null)
  /\ SetCb(p, [cb[p] EXCEPT !.pc = "ps_completed_read"])
  /\ UNCHANGED <<now, redisVars, sent, hosted, videoVars, maxConcurrentJobs>>

\* updateJob(jobId, { status: 'completed', completedAt, stitchedVideoPath }): its getJob.
PsCompletedRead(p) ==
  /\ cb[p].pc = "ps_completed_read"
  /\ updateJobRead(p, "ps_completed_write", [cb[p] EXCEPT !.pc = "ps_deleteFile"])
  /\ UNCHANGED <<now, redisVars, sent, airtable, hosted, videoVars, maxConcurrentJobs>>

\* updateJob(jobId, { status: 'completed', completedAt, stitchedVideoPath }): its
\* redis.set, or the rejection of redis.set, which updateJob rethrows into the
\* catch block of processStitching.
PsCompletedWrite(p, ok) ==
  /\ cb[p].pc = "ps_completed_write"
  /\ IF ok
     THEN updateJobWrite(p, [status |-> "completed", completedAt |-> now,
                             stitchedVideoPath |-> cb[p].stitchedVideoPath],
                         [cb[p] EXCEPT !.pc = "ps_deleteFile"])
     ELSE /\ SetCb(p, catchStitching([cb[p] EXCEPT !.upd = NoJob], "redis.set failed"))
          /\ UNCHANGED <<jobs, jobExp>>
  /\ UNCHANGED <<now, redis, tasks, taskExp, sent, airtable, hosted, videoVars, maxConcurrentJobs>>

\* await videoService.deleteFile(stitchedVideoPath); processCallback returns.
PsDeleteFile(p) ==
  /\ cb[p].pc = "ps_deleteFile"
  /\ files' = files \ {cb[p].stitchedVideoPath}
  /\ SetCb(p, Finish(cb[p], "returned"))
  /\ UNCHANGED <<now, redisVars, sent, airtable, hosted, isProcessing, queue,
                 maxConcurrentJobs>>

\* catch: await videoService.deleteFile(stitchedVideoPath).
PsCatchDeleteFile(p) ==
  /\ cb[p].pc = "ps_catch_delete"
  /\ files' = files \ {cb[p].stitchedVideoPath}
  /\ SetCb(p, [cb[p] EXCEPT !.pc = "ps_catch_getJob"])
  /\ UNCHANGED <<now, redisVars, sent, airtable, hosted, isProcessing, queue,
                 maxConcurrentJobs>>

\* catch: const job = await redisService.getJob(jobId); handleJobFailure(jobId, job, ...),
\* after which the error is rethrown.
PsCatchGetJob(p) ==
  /\ cb[p].pc = "ps_catch_getJob"
  /\ LET got == getJob(cb[p].jobId) IN
     SetCb(p, handleJobFailure(cb[p], IF got = {} THEN Null ELSE Val(got).recordId,
                               cb[p].errorMessage, "threw"))
  /\ UNCHANGED <<now, redisVars, sent, airtable, hosted, videoVars, maxConcurrentJobs>>

\* Time passes.
Tick ==
  /\ now < MaxTicks * TickSeconds
  /\ now' = now + TickSeconds
  /\ UNCHANGED <<redisVars, sent, airtable, hosted, videoVars, maxConcurrentJobs, cb>>

\* ---- the specification --------------------------------------------------------

\* The tasks generateAndStitch creates for a job and the mapping mapTaskToJob
\* records for each: the first task is video 1, the second video 2.
TaskMapping ==
  [t \in TaskIds |->
     CASE t \in {"t1", "t2"} -> [jobId |-> "job1", videoNumber |-> IF t = "t1" THEN 1 ELSE 2]
       [] t \in {"t3", "t4"} -> [jobId |-> "job2", videoNumber |-> IF t = "t3" THEN 1 ELSE 2]
       [] t \in {"t5", "t6"} -> [jobId |-> "job3", videoNumber |-> IF t = "t5" THEN 1 ELSE 2]
       [] t \in {"t7", "t8"} -> [jobId |-> "job4", videoNumber |-> IF t = "t7" THEN 1 ELSE 2]
       [] OTHER -> [jobId |-> Null, videoNumber |-> 0]]

TaskOf(jobId, videoNumber) ==
  CHOOSE t \in TaskIds : TaskMapping[t] = [jobId |-> jobId, videoNumber |-> videoNumber]

\* The job record once generateAndStitch has returned: created, then updated
\* with { taskId1, taskId2, status: 'generating' }.
DispatchedJob(jobId, recordId) ==
  updatedJob(createJob(jobId, recordId),
             [taskId1 |-> TaskOf(jobId, 1), taskId2 |-> TaskOf(jobId, 2),
              status |-> "generating"])

InitServices ==
  /\ now = 0
  /\ airtable = [r \in RecordIds |-> [Status |-> "Processing", Error |-> Null, Video |-> Null]]
  /\ hosted = [r \in RecordIds |-> 0]
  /\ files = {}
  /\ isProcessing = FALSE
  /\ queue = <<>>

\* The job record once the callback of its video n has succeeded and returned
\* while the other video was not ready: storeVideoUrl, then
\* updateJob({ status: 'processing', video<n>Status: 'ready' }).
WaitingJob(jobId, recordId, n) ==
  updatedJob(updatedJob(DispatchedJob(jobId, recordId),
                        (VideoUrlField(n) :> ResultUrl(TaskOf(jobId, n)))),
             ("status" :> "processing") @@ (VideoStatusField(n) :> "ready"))

\* The tasks callbacks arrive for: the two of job1, and one that has no mapping.
CallbackTasks == {"t1", "t2", "tX"}

\* One job has been dispatched (with or without an Airtable record).  Either no
\* callback has arrived yet, or the successful callback of one video has been
\* processed.
Init ==
  /\ InitServices
  /\ redis = TRUE
  /\ maxConcurrentJobs = DefaultConcurrentJobs
  /\ \E recordId \in {"rec1", Null}, first \in {0, 1, 2} :
       /\ jobs = [j \in JobIds |->
                    IF j # "job1" THEN NoJob
                    ELSE IF first = 0 THEN DispatchedJob(j, recordId)
                    ELSE WaitingJob(j, recordId, first)]
       /\ sent = [t \in CallbackTasks |->
                    IF first # 0 /\ t = TaskOf("job1", first)
                    THEN <<SuccessPayload>> ELSE <<>>]
  /\ jobExp = [j \in JobIds |-> IF j = "job1" THEN Ttl ELSE 0]
  /\ tasks = TaskMapping
  /\ taskExp = [t \in TaskIds |-> IF t \in {"t1", "t2"} THEN Ttl ELSE 0]
  /\ cb = [p \in Procs |-> IdleCb]

\* The steps of processCallback up to the decision on bothReady, and of
\* handleJobFailure.
CallbackStep(p) ==
  \/ CbGetJobFromTask(p)
  \/ CbGetJob(p)
  \/ CbStoreRead(p)
  \/ CbStoreWrite(p)
  \/ CbAreBothVideosReady(p)
  \/ CbWaitRead(p)
  \/ CbWaitWrite(p)

\* The steps of processStitching, processVideos and handleJobFailure.
StitchingStep(p) ==
  \/ PsGetJob(p)
  \/ PsStitchingRead(p)
  \/ PsStitchingWrite(p)
  \/ PsAirtableStitching(p)
  \/ \E i \in {1, 2}, ok \in BOOLEAN : PvDownload(p, i, ok)
  \/ SvWriteFile(p)
  \/ \E ok \in BOOLEAN : SvFfmpeg(p, ok)
  \/ SvEndRemove(p)
  \/ SvErrorRemoveList(p)
  \/ SvErrorRemoveOutput(p)
  \/ PvDeleteFiles(p)
  \/ PvCatchDeleteFiles(p)
  \/ PsUploadingRead(p)
  \/ PsUploadingWrite(p)
  \/ \E ok \in BOOLEAN : PsUpload(p, ok)
  \/ PsAirtableCompleted(p)
  \/ PsCompletedRead(p)
  \/ \E ok \in BOOLEAN : PsCompletedWrite(p, ok)
  \/ PsDeleteFile(p)
  \/ PsCatchDeleteFile(p)
  \/ PsCatchGetJob(p)
  \/ HfRead(p)
  \/ HfWrite(p)
  \/ HfAirtable(p)

Next ==
  \/ \E p \in Callbacks, t \in CallbackTasks, data \in Payloads : Deliver(p, t, data)
  \/ \E p \in Callbacks : CallbackStep(p)
  \/ \E p \in Callbacks : StitchingStep(p)
  \/ Tick

Spec == Init /\ [][Next]_vars

\* ---- several jobs become ready together ---------------------------------------

JobOf(p) == "job" \o ToString(p)
RecordOf(p) == "rec" \o ToString(p)

\* The job record once both callbacks have stored their URL: the first callback
\* returned, the second has stored its URL and found both videos ready.
ReadyJob(jobId, recordId) ==
  updatedJob(WaitingJob(jobId, recordId, 1),
             (VideoUrlField(2) :> ResultUrl(TaskOf(jobId, 2))))

\* processCallback of the second video of a job, about to run processStitching.
ReadyCb(jobId) ==
  [IdleCb EXCEPT !.pc = "ps_getJob", !.taskId = TaskOf(jobId, 2), !.jobId = jobId,
                 !.videoNumber = 2, !.videoUrl = ResultUrl(TaskOf(jobId, 2)),
                 !.bothReady = TRUE]

\* Every caller is the callback of another job that has just found both of its
\* videos ready.  maxConcurrentJobs is the constructor's 1, or the 2 that the
\* README tells the operator of a larger machine to set.
InitVideo ==
  /\ InitServices
  /\ redis = TRUE
  /\ maxConcurrentJobs \in {DefaultConcurrentJobs, ReadmeConcurrentJobs}
  /\ \E withRecord \in BOOLEAN :
       jobs = [j \in JobIds |->
                 IF \E p \in Callers : j = JobOf(p)
                 THEN ReadyJob(j, IF withRecord
                                  THEN RecordOf(CHOOSE p \in Callers : j = JobOf(p))
                                  ELSE Null)
                 ELSE NoJob]
  /\ jobExp = [j \in JobIds |-> IF \E p \in Callers : j = JobOf(p) THEN Ttl ELSE 0]
  /\ tasks = TaskMapping
  /\ taskExp = [t \in TaskIds |->
                  IF \E p \in Callers : TaskMapping[t].jobId = JobOf(p) THEN Ttl ELSE 0]
  /\ sent = [t \in {u \in TaskIds : \E p \in Callers : TaskMapping[u].jobId = JobOf(p)} |->
              <<SuccessPayload>>]
  /\ cb = [p \in Procs |-> IF p \in Callers THEN ReadyCb(JobOf(p)) ELSE IdleCb]

NextVideo == \E p \in Callers : StitchingStep(p)

SpecVideo == InitVideo /\ [][NextVideo]_vars

\* ---- the claims ------------------------------------------------------------------

Job1 == jobs["job1"]
\* No key of the store has reached its expiry.
NoExpiryYet == now < Ttl

Finished(p) == cb[p].pc \in {"returned", "threw"}

\* The callback has passed processCallback's decision on bothReady.
Decided(p) ==
  cb[p].pc \notin {"idle", "cb_getJobFromTask", "cb_getJob", "cb_store_read",
                   "cb_store_write", "cb_areBothVideosReady"}

\* Each task of job1 reports success with a URL and has called back exactly once.
BothSucceedOnce ==
  /\ \A t \in {"t1", "t2"} : sent[t] = <<SuccessPayload>>

\* The callbacks that found both videos ready, each of which runs processStitching.
SecondArrivals == {p \in Callbacks : cb[p].jobId = "job1" /\ cb[p].bothReady}

\* C1: when both tasks of a job report success, exactly one of the two
\* processCallback executions finds both videos ready (so processStitching is
\* started once), under every interleaving of their store reads and writes.
C1_ExactlyOneSecondArrival ==
  (BothSucceedOnce /\ NoExpiryYet /\ \A p \in Callbacks : Decided(p))
     => Cardinality(SecondArrivals) = 1

\* C2: when both tasks of a job report success and nothing fails in the fetch,
\* the merge and the publish (every callback returns without an error), the job
\* is completed once both callbacks have been processed; it is not left waiting.
C2_BothDeliveredCompletes ==
  (BothSucceedOnce /\ NoExpiryYet /\ \A p \in Callbacks : cb[p].pc = "returned")
     => Job1.status = "completed"

\* C3: no update of a job is lost: the URL a callback has stored with
\* storeVideoUrl is in the job record from then on, whatever other updateJob
\* calls run at the same time.
C3_NoLostUpdate ==
  \A p \in Callbacks :
     (cb[p].jobId = "job1" /\ cb[p].videoUrl # Null /\ NoExpiryYet
        /\ cb[p].pc \notin {"cb_store_read", "cb_store_write"})
     => Job1[VideoUrlField(cb[p].videoNumber)] = cb[p].videoUrl

\* C4: a callback that arrives when its job is already completed or failed
\* changes nothing of the job record and starts no merge.
C4_TerminalJobUntouched ==
  [][\A p \in Callbacks :
       (cb[p].late /\ cb'[p] # cb[p])
          => (jobs' = jobs /\ cb'[p].pc # "ps_getJob")]_vars

C6_FailedNeverCompleted ==
  [][((\E p \in Callbacks : /\ Finished(p) /\ cb[p].jobId = "job1"
                              /\ cb[p].data.state = "fail")
        /\ Job1.status # "completed")
     => jobs'["job1"].status # "completed"]_vars

\* C7: a callback delivered twice has the effect of one delivery: the merge
\* and the upload run at most once for the job.
C7_DuplicateIsIdempotent ==
  (\E t \in {"t1", "t2"}, data \in Payloads :
      sent[t] = <<data, data>> /\ \A p \in Callbacks : cb[p].taskId = t)
     => /\ hosted["rec1"] <= 1
        /\ Cardinality({p \in Callbacks : cb[p].stitchedVideoPath # Null}) <= 1

\* C8: a callback whose task id has no mapping in the store returns at once,
\* without an error, and changes nothing: no job record, Airtable record or
\* file, and no merge.
C8_UnknownTaskIsNoOp ==
  [][\A p \in Callbacks :
       (cb[p].pc = "cb_getJobFromTask" /\ cb'[p] # cb[p]
          /\ now >= taskExp[cb[p].taskId])
       => /\ cb'[p].pc = "returned"
          /\ UNCHANGED <<redis, jobs, jobExp, tasks, taskExp, airtable, hosted,
                         files, isProcessing, queue>>]_vars

\* The callback of a task that never had a mapping and the callback of a task
\* whose mapping has expired have both returned without a job.
C8_Witness ==
  \E p, q \in Callbacks :
     /\ cb[p].taskId = "tX" /\ cb[p].pc = "returned" /\ cb[p].jobId = Null
     /\ cb[q].taskId = "t1" /\ cb[q].pc = "returned" /\ cb[q].jobId = Null
     /\ now >= taskExp["t1"]

\* C9: at most one operation passed to withConcurrencyControl is between its
\* start and its completion, at every moment, also when one operation ends and
\* the next queued one is started.
C9_OneMergeAtATime == Cardinality(Running) <= 1

\* One operation has just ended, the first queued one has been started in the
\* same step, and a third one is still queued.
C9_Witness ==
  \E p, q, r \in Callers :
     /\ cb[p].pc = "pv_deleteFiles" /\ cb[q].pc = "sv_writeFile" /\ cb[r].pc = "wcc_queued"
     /\ isProcessing /\ queue = <<r>>

\* C10: the number of operations that run together is bounded by
\* maxConcurrentJobs, and an operation waits in the queue only when
\* maxConcurrentJobs operations are running.
C10_CeilingIsMaxConcurrentJobs ==
  /\ Cardinality(Running) <= maxConcurrentJobs
  /\ queue # <<>> => Cardinality(Running) = maxConcurrentJobs

\* ---- C11..C20 --------------------------------------------------------------------

\* The two callers of scenario C (two jobs become ready in the same instant).
Pair == {1, 2}

\* Two jobs have just found both of their videos ready, with the constructor's
\* maxConcurrentJobs.
InitPair ==
  /\ InitServices
  /\ redis = TRUE
  /\ maxConcurrentJobs = DefaultConcurrentJobs
  /\ \E withRecord \in BOOLEAN :
       jobs = [j \in JobIds |->
                 IF \E p \in Pair : j = JobOf(p)
                 THEN ReadyJob(j, IF withRecord
                                  THEN RecordOf(CHOOSE p \in Pair : j = JobOf(p))
                                  ELSE Null)
                 ELSE NoJob]
  /\ jobExp = [j \in JobIds |-> IF \E p \in Pair : j = JobOf(p) THEN Ttl ELSE 0]
  /\ tasks = TaskMapping
  /\ taskExp = [t \in TaskIds |->
                  IF \E p \in Pair : TaskMapping[t].jobId = JobOf(p) THEN Ttl ELSE 0]
  /\ sent = [t \in {u \in TaskIds : \E p \in Pair : TaskMapping[u].jobId = JobOf(p)} |->
              <<SuccessPayload>>]
  /\ cb = [p \in Procs |-> IF p \in Pair THEN ReadyCb(JobOf(p)) ELSE IdleCb]

NextPair == \E p \in Pair : StitchingStep(p)

\* Every pending continuation of every caller is eventually run by the event
\* loop, and every I/O operation it waits for settles.
FairSpecPair == InitPair /\ [][NextPair]_vars /\ \A p \in Pair : WF_vars(StitchingStep(p))

\* The operation of p has settled and processVideos has its result or its error.
GotResult(p) == cb[p].pc \in {"pv_deleteFiles", "pv_catch_deleteFiles"}

\* C11: every operation queued by withConcurrencyControl is eventually started
\* and its caller eventually gets the result, also when an earlier operation
\* failed; every caller's processStitching eventually ends.
C11_QueuedEventuallyRuns ==
  \A p \in Pair :
     /\ (cb[p].pc = "wcc_queued") ~> (cb[p].pc = "sv_writeFile")
     /\ (cb[p].pc = "sv_writeFile") ~> GotResult(p)
     /\ <>Finished(p)
     /\ [](cb[p].pc = "returned" => jobs[JobOf(p)].status = "completed")

\* The first operation failed, the queued one was started by the finally block,
\* its caller got the result and its job is completed.
C11_Witness ==
  \E p, q \in Pair :
     /\ cb[p].pc = "threw" /\ cb[p].stitchedVideoPath = Null /\ cb[p].dl = <<"done", "done">>
     /\ cb[q].pc = "returned" /\ jobs[JobOf(q)].status = "completed"
     /\ queue = <<>> /\ ~isProcessing

\* processVideos of p has been called and has returned or thrown.
ProcessVideosDone(p) ==
  /\ cb[p].timestamp # NoTime
  /\ cb[p].pc \notin {"pv_download", "wcc_queued", "sv_writeFile", "sv_ffmpeg",
                      "sv_end_remove", "sv_error_remove_list", "sv_error_remove_output",
                      "pv_deleteFiles", "pv_catch_deleteFiles"}

\* C12: once processVideos has returned or thrown for a job, none of the job's
\* intermediate files is left (the downloaded inputs, the concat list, a partial
\* output): only the stitched output of a successful merge may exist.  Stated
\* for the states where no other job has created files.
C12_NoIntermediateFilesRemain ==
  \A p \in Callers :
     (ProcessVideosDone(p) /\ \A q \in Callers \ {p} : cb[q].timestamp = NoTime)
     => files \subseteq {StitchedPath(cb[p].timestamp)}

\* C13: the result of the first task is recorded only in video1Url and that of
\* the second only in video2Url, and processStitching hands them to the merge
\* in that order, whichever callback arrived first.
C13_SlotsFollowDispatchOrder ==
  /\ Job1.video1Url \in {Null, ResultUrl(Job1.taskId1)}
  /\ Job1.video2Url \in {Null, ResultUrl(Job1.taskId2)}
  /\ \A p \in Callbacks :
        /\ cb[p].video1Url \in {Null, ResultUrl("t1")}
        /\ cb[p].video2Url \in {Null, ResultUrl("t2")}

\* The callback of the second task was processed first; the callback of the
\* first task then started the merge of video 1 followed by video 2.
C13_Witness ==
  \E p \in Callbacks :
     /\ sent["t2"] = <<SuccessPayload>> /\ sent["t1"] = <<SuccessPayload>>
     /\ cb[p].taskId = "t1" /\ cb[p].pc = "sv_ffmpeg"
     /\ \A q \in Callbacks \ {p} : cb[q].pc = "idle"
     /\ cb[p].video1Url = ResultUrl("t1") /\ cb[p].video2Url = ResultUrl("t2")
     /\ Job1.taskId1 = "t1" /\ Job1.taskId2 = "t2"

\* The position of a status in pending -> generating -> processing ->
\* stitching -> uploading -> completed.
StatusRank(status) ==
  CASE status = "pending" -> 0
    [] status = "generating" -> 1
    [] status = "processing" -> 2
    [] status = "stitching" -> 3
    [] status = "uploading" -> 4
    [] status = "completed" -> 5
    [] OTHER -> 6

\* C14: every change of a job's status is a forward step along pending ->
\* generating -> processing -> stitching -> uploading -> completed, or a step to
\* failed from a status that is not terminal; completed and failed are never left.
C14_StatusMovesForward ==
  [][jobs'["job1"].status # Job1.status
       => /\ Job1.status \notin {"completed", "failed"}
          /\ \/ jobs'["job1"].status = "failed"
             \/ StatusRank(jobs'["job1"].status) > StatusRank(Job1.status)]_vars

\* C15: a stored job record has an error only when its status is failed.
C15_ErrorOnlyWhenFailed ==
  \A job \in getJob("job1") : job.error # Null => job.status = "failed"

\* C16: a stored job record with status processing has both video URLs.
C16_ProcessingHasBothVideos ==
  \A job \in getJob("job1") :
     job.status = "processing" => (job.video1Url # Null /\ job.video2Url # Null)

\* ---- retention of the keys --------------------------------------------------------

\* Time passes, in steps shorter than the retention window.
HalfTick ==
  /\ now < MaxHalfTicks * HalfTickSeconds
  /\ now' = now + HalfTickSeconds
  /\ UNCHANGED <<redisVars, sent, airtable, hosted, videoVars, maxConcurrentJobs, cb>>

\* One job and the callbacks that arrive for it one at a time, while time passes.
NextTtl ==
  \/ \E t \in CallbackTasks, data \in Payloads : Deliver(1, t, data)
  \/ CallbackStep(1)
  \/ StitchingStep(1)
  \/ HalfTick

SpecTtl == Init /\ [][NextTtl]_vars

\* C17: while the job record is stored and a task of the job has not called
\* back yet, the mapping of that task is still stored.
C17_MappingOutlivesJob ==
  \A t \in {"t1", "t2"} :
     (getJob("job1") # {} /\ sent[t] = <<>>) => getJobFromTask(t) # {}

\* ---- VideoController.generateAndStitch ------------------------------------------

\* SoraService.createTask: the message of the error it throws.
CreateTaskError == "Failed to create Sora task: request failed"

\* getJobStatus: the HTTP status of the response.
getJobStatus(jobId) == IF getJob(jobId) = {} THEN 404 ELSE 200

\* The values of a prompt in the request body: absent, empty, or a text.
Prompts == {Null, "", "a prompt"}

\* !prompt is false: the prompt is neither absent nor the empty string.
Given(prompt) == prompt \notin {Null, ""}

\* generateAndStitch without the validation of the body.
generateAndStitchUnvalidated(p, recordId, prompt1, prompt2) ==
  /\ cb[p].pc = "idle"
  /\ SetCb(p, [cb[p] EXCEPT !.pc = "gs_createJob", !.jobId = "job1", !.recordId = recordId,
                            !.prompt1 = prompt1, !.prompt2 = prompt2])
  /\ UNCHANGED <<now, redisVars, sent, airtable, hosted, videoVars, maxConcurrentJobs>>

\* generateAndStitch: the validation of the body (400 when !prompt1 || !prompt2),
\* then generateJobId, up to the await of redisService.createJob.
generateAndStitch(p, recordId, prompt1, prompt2) ==
  /\ cb[p].pc = "idle"
  /\ IF ~Given(prompt1) \/ ~Given(prompt2)
     THEN SetCb(p, [cb[p] EXCEPT !.pc = "res400", !.prompt1 = prompt1, !.prompt2 = prompt2])
     ELSE SetCb(p, [cb[p] EXCEPT !.pc = "gs_createJob", !.jobId = "job1",
                                 !.recordId = recordId,
                                 !.prompt1 = prompt1, !.prompt2 = prompt2])
  /\ UNCHANGED <<now, redisVars, sent, airtable, hosted, videoVars, maxConcurrentJobs>>

\* createJob without its guard on this.redis: the record is written in any case.
GsCreateJobUnguarded(p) ==
  /\ cb[p].pc = "gs_createJob"
  /\ jobs' = [jobs EXCEPT ![cb[p].jobId] = createJob(cb[p].jobId, cb[p].recordId)]
  /\ jobExp' = [jobExp EXCEPT ![cb[p].jobId] = now + Ttl]
  /\ SetCb(p, [cb[p] EXCEPT !.pc = "gs_createTask", !.created = <<"running", "running">>])
  /\ UNCHANGED <<now, redis, tasks, taskExp, sent, airtable, hosted, videoVars, maxConcurrentJobs>>

\* await redisService.createJob(jobId, ...): nothing is written without Redis.
\* Then both createTask calls start.
GsCreateJob(p) ==
  /\ cb[p].pc = "gs_createJob"
  /\ IF redis
     THEN /\ jobs' = [jobs EXCEPT ![cb[p].jobId] = createJob(cb[p].jobId, cb[p].recordId)]
          /\ jobExp' = [jobExp EXCEPT ![cb[p].jobId] = now + Ttl]
     ELSE UNCHANGED <<jobs, jobExp>>
  /\ SetCb(p, [cb[p] EXCEPT !.pc = "gs_createTask", !.created = <<"running", "running">>])
  /\ UNCHANGED <<now, redis, tasks, taskExp, sent, airtable, hosted, videoVars, maxConcurrentJobs>>

\* generateAndStitch storing the mapping of a task as soon as its createTask
\* has resolved, without waiting for the other.
GsCreateTaskMappingAtOnce(p, i, ok) ==
  /\ cb[p].created[i] = "running"
  /\ IF ok /\ redis
     THEN /\ tasks' = [tasks EXCEPT ![TaskOf(cb[p].jobId, i)] =
                         [jobId |-> cb[p].jobId, videoNumber |-> i]]
          /\ taskExp' = [taskExp EXCEPT ![TaskOf(cb[p].jobId, i)] = now + Ttl]
     ELSE UNCHANGED <<tasks, taskExp>>
  /\ LET r == [cb[p] EXCEPT !.created[i] = IF ok THEN "done" ELSE "failed"] IN
     IF cb[p].pc # "gs_createTask"
     THEN SetCb(p, r)
     ELSE IF ~ok
     THEN SetCb(p, handleJobFailure(r, r.recordId, "Failed to create Sora task: request failed", "res500"))
     ELSE IF r.created = <<"done", "done">>
     THEN SetCb(p, [r EXCEPT !.pc = "gs_mapTask", !.mapped = <<"running", "running">>])
     ELSE SetCb(p, r)
  /\ UNCHANGED <<now, redis, jobs, jobExp, sent, airtable, hosted, videoVars, maxConcurrentJobs>>

\* The catch block without its handleJobFailure: a rejection is answered 500
\* at once.
GsCreateTaskNoCleanUp(p, i, ok) ==
  /\ cb[p].created[i] = "running"
  /\ LET r == [cb[p] EXCEPT !.created[i] = IF ok THEN "done" ELSE "failed"] IN
     IF cb[p].pc # "gs_createTask"
     THEN SetCb(p, r)
     ELSE IF ~ok
     THEN SetCb(p, [r EXCEPT !.pc = "res500"])
     ELSE IF r.created = <<"done", "done">>
     THEN SetCb(p, [r EXCEPT !.pc = "gs_mapTask", !.mapped = <<"running", "running">>])
     ELSE SetCb(p, r)
  /\ UNCHANGED <<now, redisVars, sent, airtable, hosted, videoVars, maxConcurrentJobs>>

\* One soraService.createTask of the Promise.all settles.  The first rejection
\* rejects the Promise.all and enters the catch block (handleJobFailure with the
\* recordId of the request); the other call is not cancelled.  When both have
\* resolved the two mapTaskToJob calls start.
GsCreateTask(p, i, ok) ==
  /\ cb[p].created[i] = "running"
  /\ LET r == [cb[p] EXCEPT !.created[i] = IF ok THEN "done" ELSE "failed"] IN
     IF cb[p].pc # "gs_createTask"
     THEN SetCb(p, r)
     ELSE IF ~ok
     THEN SetCb(p, handleJobFailure(r, r.recordId, CreateTaskError, "res500"))
     ELSE IF r.created = <<"done", "done">>
     THEN SetCb(p, [r EXCEPT !.pc = "gs_mapTask", !.mapped = <<"running", "running">>])
     ELSE SetCb(p, r)
  /\ UNCHANGED <<now, redisVars, sent, airtable, hosted, videoVars, maxConcurrentJobs>>

\* One redisService.mapTaskToJob(taskId<i>, jobId, i) of the Promise.all: the
\* mapping is stored with the TTL, and nothing is written without Redis.  When
\* both are done updateJob starts.
GsMapTask(p, i) ==
  /\ cb[p].pc = "gs_mapTask"
  /\ cb[p].mapped[i] = "running"
  /\ IF redis
     THEN /\ tasks' = [tasks EXCEPT ![TaskOf(cb[p].jobId, i)] =
                         [jobId |-> cb[p].jobId, videoNumber |-> i]]
          /\ taskExp' = [taskExp EXCEPT ![TaskOf(cb[p].jobId, i)] = now + Ttl]
     ELSE UNCHANGED <<tasks, taskExp>>
  /\ LET r == [cb[p] EXCEPT !.mapped[i] = "done"] IN
     SetCb(p, IF r.mapped = <<"done", "done">> THEN [r EXCEPT !.pc = "gs_update_read"] ELSE r)
  /\ UNCHANGED <<now, redis, jobs, jobExp, sent, airtable, hosted, videoVars, maxConcurrentJobs>>

\* updateJob({ taskId1, taskId2, status: 'generating' }): its getJob; the 202
\* response follows when updateJob returns.
GsUpdateRead(p) ==
  /\ cb[p].pc = "gs_update_read"
  /\ updateJobRead(p, "gs_update_write", [cb[p] EXCEPT !.pc = "res202"])
  /\ UNCHANGED <<now, redisVars, sent, airtable, hosted, videoVars, maxConcurrentJobs>>

\* updateJob({ taskId1, taskId2, status: 'generating' }): its redis.set.
GsUpdateWrite(p) ==
  /\ cb[p].pc = "gs_update_write"
  /\ updateJobWrite(p, [taskId1 |-> TaskOf(cb[p].jobId, 1), taskId2 |-> TaskOf(cb[p].jobId, 2),
                        status |-> "generating"],
                    [cb[p] EXCEPT !.pc = "res202"])
  /\ UNCHANGED <<now, redis, tasks, taskExp, sent, airtable, hosted, videoVars, maxConcurrentJobs>>

\* The steps of generateAndStitch after the request has arrived.
DispatchStep(p) ==
  \/ GsCreateJob(p)
  \/ \E i \in {1, 2}, ok \in BOOLEAN : GsCreateTask(p, i, ok)
  \/ \E i \in {1, 2} : GsMapTask(p, i)
  \/ GsUpdateRead(p)
  \/ GsUpdateWrite(p)

\* The steps of handleJobFailure.
FailureStep(p) ==
  \/ HfRead(p)
  \/ HfWrite(p)
  \/ HfAirtable(p)

\* The render service calls back for a task it has accepted.
DeliverCreated(p, t, data) ==
  /\ \E d \in Dispatchers, i \in {1, 2} :
        /\ cb[d].jobId # Null
        /\ t = TaskOf(cb[d].jobId, i)
        /\ cb[d].created[i] = "done"
  /\ Deliver(p, t, data)

\* Nothing is stored and no request has arrived; Redis is configured or not.
InitDispatch ==
  /\ InitServices
  /\ redis \in BOOLEAN
  /\ maxConcurrentJobs = DefaultConcurrentJobs
  /\ jobs = [j \in JobIds |-> NoJob]
  /\ jobExp = [j \in JobIds |-> 0]
  /\ tasks = [t \in TaskIds |-> [jobId |-> Null, videoNumber |-> 0]]
  /\ taskExp = [t \in TaskIds |-> 0]
  /\ sent = [t \in CallbackTasks |-> <<>>]
  /\ cb = [p \in Procs |-> IdleCb]

\* One dispatch request and the callbacks of its tasks, up to the decision to
\* start the merge.
NextDispatch ==
  \/ \E d \in Dispatchers :
        \/ \E recordId \in {"rec1", Null}, prompt1, prompt2 \in Prompts :
              generateAndStitch(d, recordId, prompt1, prompt2)
        \/ DispatchStep(d)
        \/ FailureStep(d)
  \/ \E p \in Callbacks :
        \/ \E t \in {"t1", "t2"}, data \in Payloads : DeliverCreated(p, t, data)
        \/ CallbackStep(p)
        \/ FailureStep(p)

SpecDispatch == InitDispatch /\ [][NextDispatch]_vars

\* C18: with Redis configured, a callback that looks up its mapping after both
\* createTask calls of the dispatch have resolved finds the mapping.
C18_CallbackFindsMapping ==
  [][\A p \in Callbacks :
        (/\ redis
         /\ cb[p].pc = "cb_getJobFromTask"
         /\ cb'[p].pc # cb[p].pc
         /\ \A d \in Dispatchers : cb[d].created = <<"done", "done">>)
        => cb'[p].pc = "cb_getJob"]_vars

\* C19: without Redis, nothing is persisted and the status query answers 404;
\* the dispatch is answered 202 once both tasks are submitted and 500 only when
\* a submission failed; every callback returns at the mapping lookup, and no
\* merge file or Airtable attachment appears.
C19_WithoutRedisDegrades ==
  ~redis =>
    /\ jobs = [j \in JobIds |-> NoJob]
    /\ \A t \in TaskIds : tasks[t].jobId = Null
    /\ getJobStatus("job1") = 404
    /\ \A d \in Dispatchers :
         /\ cb[d].pc \in {"idle", "res400", "gs_createJob", "gs_createTask", "gs_mapTask",
                          "gs_update_read", "res202", "hf_read", "hf_airtable", "res500"}
         /\ cb[d].pc \in {"gs_mapTask", "gs_update_read", "res202"}
              <=> cb[d].created = <<"done", "done">>
         /\ cb[d].pc \in {"hf_read", "hf_airtable", "res500"}
              <=> \E i \in {1, 2} : cb[d].created[i] = "failed"
    /\ \A p \in Callbacks : cb[p].pc \in {"idle", "cb_getJobFromTask", "returned"}
    /\ files = {}
    /\ ~isProcessing
    /\ \A r \in DOMAIN airtable : airtable[r].Video = Null /\ hosted[r] = 0

C19_Witness ==
  /\ ~redis
  /\ \A d \in Dispatchers : cb[d].pc = "res202" /\ cb[d].created = <<"done", "done">>
  /\ \A p \in Callbacks : cb[p].pc = "returned"
  /\ sent["t1"] = <<SuccessPayload>>
  /\ sent["t2"] = <<SuccessPayload>>
  /\ getJobStatus("job1") = 404

\* The dispatch of d has seen one of its createTask calls fail.
SubmissionFailed(d) == \E i \in {1, 2} : cb[d].created[i] = "failed"

NothingDone(d) ==
  /\ jobs = [j \in JobIds |-> NoJob]
  /\ \A t \in TaskIds : tasks[t].jobId = Null /\ taskExp[t] = 0
  /\ cb[d].created = <<"none", "none">>
  /\ cb[d].mapped = <<"none", "none">>
  /\ \A t \in CallbackTasks : sent[t] = <<>>
  /\ \A r \in RecordIds : airtable[r].Status = "Processing"

\* C21: a request whose prompt1 or prompt2 is absent or empty is answered 400,
\* and then no job record, no task mapping and no submitted task exists.
C21_InvalidRequestHasNoEffect ==
  /\ [][\A d \in Dispatchers :
          (cb[d].pc = "idle" /\ cb'[d].pc # "idle"
             /\ (~Given(cb'[d].prompt1) \/ ~Given(cb'[d].prompt2)))
          => (cb'[d].pc = "res400" /\ UNCHANGED <<redisVars, sent, airtable, files>>)]_vars
  /\ [](\A d \in Dispatchers : cb[d].pc = "res400" => NothingDone(d))

C21_Witness ==
  \E d \in Dispatchers :
     /\ cb[d].pc = "res400"
     /\ cb[d].prompt1 = "a prompt"
     /\ cb[d].prompt2 = ""
     /\ NothingDone(d)

\* C22: the 200 response to a callback is sent when processCallback is at its
\* first await, before any store, file or Airtable change of that callback, and
\* stays sent whatever the processing does afterwards.
C22_CallbackAcknowledgedAtOnce ==
  [][\A p \in Callbacks :
        /\ (cb[p].pc = "idle" /\ cb'[p].pc # "idle")
           => /\ cb'[p].res = 200
              /\ cb'[p].pc = "cb_getJobFromTask"
              /\ UNCHANGED <<redisVars, airtable, hosted, files>>
        /\ cb[p].pc # "idle" => (cb[p].res = 200 /\ cb'[p].res = 200)]_vars

C22_Witness ==
  \E p, q \in Callbacks :
     /\ cb[p].pc = "sv_ffmpeg"
     /\ cb[p].res = 200
     /\ cb[q].pc = "returned"
     /\ cb[q].res = 200

\* C23: a handleJobFailure whose updateJob read the job as already failed leaves
\* error and failedAt as they were, and its Airtable update changes nothing of
\* a record that is already Failed.
C23_FailureHandlerIdempotent ==
  [][\A p \in Procs :
        /\ (cb[p].pc = "hf_write" /\ cb'[p].pc # "hf_write" /\ cb[p].upd.status = "failed")
           => /\ jobs'[cb[p].jobId].error = cb[p].upd.error
              /\ jobs'[cb[p].jobId].failedAt = cb[p].upd.failedAt
        /\ (cb[p].pc = "hf_airtable" /\ cb'[p].pc # "hf_airtable"
               /\ airtable[cb[p].hfRecordId].Status = "Failed")
           => airtable' = airtable]_vars

\* C24: while the job record is stored, once processStitching has thrown for a
\* job whose two tasks each called back once with success, the job is failed
\* with a reason, its Airtable record, if any, is Failed, and the callback had
\* been answered 200.
C24_PipelineErrorFailsJob ==
  \A p \in Callbacks :
     (cb[p].pc = "threw" /\ BothSucceedOnce /\ NoExpiryYet)
     => /\ cb[p].res = 200
        /\ Job1.status = "failed"
        /\ Job1.error \notin {Null, ""}
        /\ Job1.recordId # Null => airtable[Job1.recordId].Status = "Failed"

\* C25: when processStitching of the only job that has started its merge has
\* ended, by returning or by throwing, the merged file of that job is not on
\* disk.
C25_MergedFileDeleted ==
  \A p \in Callers :
     (/\ Finished(p)
      /\ cb[p].timestamp # NoTime
      /\ \A q \in Callers \ {p} : cb[q].timestamp = NoTime)
     => StitchedPath(cb[p].timestamp) \notin files

\* The merge and the upload succeeded, the final updateJob was rejected, and
\* processStitching has thrown.
C25_Witness ==
  \E p \in Callers :
     /\ cb[p].pc = "threw"
     /\ cb[p].stitchedVideoPath = StitchedPath(cb[p].timestamp)
     /\ airtable[RecordOf(p)].Video = cb[p].stitchedVideoPath
     /\ jobs[JobOf(p)].status = "failed"
     /\ \A q \in Callers \ {p} : cb[q].timestamp = NoTime
     /\ StitchedPath(cb[p].timestamp) \notin files

\* C26: a job stored as completed has had its merged file uploaded: the file
\* was sent to the temporary host and attached to an Airtable record.
C26_CompletedWasPublished ==
  \A job \in getJob("job1") :
     job.status = "completed"
     => \E r \in RecordIds : hosted[r] > 0 /\ airtable[r].Video = job.stitchedVideoPath

\* ---- VideoController.getJobStatus -------------------------------------------------

\* A status query that also renews the expiry of the record it reads.
GetJobStatusTouching(q, jobId) ==
  /\ LET got == getJob(jobId) IN
     /\ SetCb(q, [IdleCb EXCEPT !.pc = "responded", !.jobId = jobId,
                                !.res = getJobStatus(jobId),
                                !.upd = IF got = {} THEN NoJob ELSE Val(got)])
     /\ jobExp' = IF got = {} THEN jobExp ELSE [jobExp EXCEPT ![jobId] = now + Ttl]
  /\ UNCHANGED <<now, redis, jobs, tasks, taskExp, sent, airtable, hosted, videoVars,
                 maxConcurrentJobs>>

\* getJobStatus: const job = await redisService.getJob(jobId), a redis.get; the
\* response is 404 when there is no job, else 200 with the fields of the job.
GetJobStatus(q, jobId) ==
  /\ LET got == getJob(jobId) IN
     SetCb(q, [IdleCb EXCEPT !.pc = "responded", !.jobId = jobId,
                            !.res = getJobStatus(jobId),
                            !.upd = IF got = {} THEN NoJob ELSE Val(got)])
  /\ UNCHANGED <<now, redisVars, sent, airtable, hosted, videoVars, maxConcurrentJobs>>

\* One job, its callbacks one at a time, the passing of time, and status
\* queries for that job and for a job id that was never dispatched.
NextQuery ==
  \/ NextTtl
  \/ \E q \in Queriers, jobId \in {"job1", "job2"} : GetJobStatus(q, jobId)

SpecQuery == Init /\ [][NextQuery]_vars

\* C27: a status query changes nothing in the store, in Airtable or on disk;
\* it answers 404 when the job is unknown or expired, else 200 with the job as
\* stored.
C27_StatusQueryReadOnly ==
  [][\A q \in Queriers :
        cb'[q] # cb[q]
        => /\ UNCHANGED <<redisVars, airtable, hosted, files>>
           /\ cb'[q].res = IF getJob(cb'[q].jobId) = {} THEN 404 ELSE 200
           /\ \A job \in getJob(cb'[q].jobId) : cb'[q].upd = job]_vars

\* The query for job1 was answered 404 although its record had been written:
\* the record has expired.
C27_Witness ==
  \E q \in Queriers :
     /\ cb[q].pc = "responded"
     /\ cb[q].jobId = "job1"
     /\ cb[q].res = 404
     /\ Job1.status = "processing"
     /\ now >= jobExp["job1"]

\* Task t has never called back and every callback of the other task of job1
\* reported success with a result URL.
OnlyOtherArrived(t) ==
  /\ sent[t] = <<>>
  /\ \A u \in {"t1", "t2"} \ {t} :
        \A k \in DOMAIN sent[u] : sent[u][k] = SuccessPayload

\* C28: while one task of job1 has never called back, the job is generating
\* or processing with no error and no merge has started, also once the record
\* has expired; and no step in which time passes changes a job record.
C28_MissingCallbackLeavesJobWaiting ==
  /\ [](\A t \in {"t1", "t2"} :
          OnlyOtherArrived(t)
          => /\ Job1.status \in {"generating", "processing"}
             /\ Job1.error = Null
             /\ Job1.failedAt = NoTime
             /\ Job1.completedAt = NoTime
             /\ \A p \in Callbacks : ~cb[p].bothReady /\ cb[p].timestamp = NoTime
             /\ files = {})
  /\ [][now' # now => (jobs' = jobs /\ airtable' = airtable)]_vars

\* The callback of t1 was handled, t2 never called back, and the record has
\* expired as processing.
C28_Witness ==
  /\ OnlyOtherArrived("t2")
  /\ sent["t1"] = <<SuccessPayload>>
  /\ \E p \in Callbacks : cb[p].pc = "returned" /\ cb[p].taskId = "t1"
  /\ \A p \in Callbacks : cb[p].pc \in {"idle", "returned"}
  /\ Job1.status = "processing"
  /\ Job1.video1Url = ResultUrl("t1")
  /\ now >= jobExp["job1"]
  /\ getJob("job1") = {}

\* The pipeline steps a process is in: a download of processVideos is running,
\* stitchVideos is running, uploadVideoAttachment or the Completed update of
\* the record is running.
Downloading(p) == \E i \in {1, 2} : cb[p].dl[i] = "running"
Merging(p) == p \in Running
Publishing(p) == cb[p].pc \in {"ps_upload", "ps_airtable_completed"}

\* C29: among the processes working on job1, a merge runs only when no
\* download is running and both downloads of the merging process are done, and
\* a publish runs only when no download and no merge is running and the merge
\* of the publishing process has returned its file.
C29_PipelineStepsSequential ==
  \A p \in Callbacks :
     /\ Merging(p) =>
          /\ cb[p].dl = <<"done", "done">>
          /\ \A q \in Callbacks : cb[q].jobId = cb[p].jobId => ~Downloading(q)
     /\ Publishing(p) =>
          /\ cb[p].stitchedVideoPath # Null
          /\ \A q \in Callbacks :
                cb[q].jobId = cb[p].jobId => (~Downloading(q) /\ ~Merging(q))

\* C30: a running download of a job can end, with success, in every state,
\* whatever merge is running or queued; only stitchVideos waits for
\* isProcessing.
C30_DownloadsNotSerialized ==
  \A p \in Callers, i \in {1, 2} :
     cb[p].dl[i] = "running" => ENABLED PvDownload(p, i, TRUE)

\* One job is merging while the two others are downloading, the first
\* download of each done and the second running.
C30_Witness ==
  \E p \in Callers :
     /\ cb[p].pc = "sv_ffmpeg"
     /\ isProcessing
     /\ \A q \in Callers \ {p} :
           /\ cb[q].pc = "pv_download"
           /\ cb[q].dl = <<"done", "running">>
           /\ VideoPath(1, cb[q].timestamp) \in files

\* ---- C31..C39 ---------------------------------------------------------------------

\* The positions of a caller whose operation holds the merge slot.
MergePcs == {"sv_writeFile", "sv_ffmpeg", "sv_end_remove",
             "sv_error_remove_list", "sv_error_remove_output"}

\* C31: in the step in which the only job that has started releases the merge
\* slot, its downloaded inputs are off disk, and so is its partial output when
\* the merge failed.
C31_CleanupBeforeRelease ==
  [][\A p \in Callers :
        (/\ cb[p].pc \in MergePcs
         /\ cb'[p].pc \notin MergePcs
         /\ \A q \in Callers \ {p} : cb[q].timestamp = NoTime)
        => /\ files' \cap InputPaths(cb[p]) = {}
           /\ cb'[p].pc = "pv_catch_deleteFiles"
                => StitchedPath(cb[p].timestamp) \notin files']_vars

\* The positions of a process inside updateJob: before its getJob, and before
\* its redis.set.
UpdateReadPcs == {"cb_store_read", "cb_wait_read", "hf_read", "ps_stitching_read",
                  "ps_uploading_read", "ps_completed_read", "gs_update_read"}
UpdateWritePcs == {"cb_store_write", "cb_wait_write", "hf_write", "ps_stitching_write",
                   "ps_uploading_write", "ps_completed_write", "gs_update_write"}

\* C32: a step changes a job record or its expiry only as the redis.set of an
\* updateJob, which sets the expiry of that job to now + Ttl and updatedAt to
\* now and touches no other job; every other step, the reads of getJob and of
\* the status query included, leaves the expiries alone; and an updateJob that
\* reads no job goes on without a redis.set and writes nothing.
C32_RefreshOnWrite ==
  [][/\ (jobs' # jobs \/ jobExp' # jobExp)
        => \E p \in Procs :
              /\ cb[p].pc \in UpdateWritePcs
              /\ cb'[p].pc # cb[p].pc
              /\ jobExp'[cb[p].jobId] = now + Ttl
              /\ jobs'[cb[p].jobId].updatedAt = now
              /\ \A j \in JobIds \ {cb[p].jobId} : jobs'[j] = jobs[j] /\ jobExp'[j] = jobExp[j]
     /\ \A p \in Procs :
           (cb[p].pc \in UpdateWritePcs /\ cb'[p].pc # cb[p].pc /\ jobs' # jobs)
           => jobExp'[cb[p].jobId] = now + Ttl
     /\ \A p \in Procs :
           (cb[p].pc \in UpdateReadPcs /\ cb'[p].pc # cb[p].pc /\ getJob(cb[p].jobId) = {})
           => (cb'[p].pc \notin UpdateWritePcs /\ UNCHANGED <<jobs, jobExp>>)]_vars

\* The record was rewritten at the first half tick, which moved its expiry
\* past the first window, and a status query after the end of that window
\* found it.
C32_Witness ==
  /\ jobExp["job1"] = HalfTickSeconds + Ttl
  /\ Job1.updatedAt = HalfTickSeconds
  /\ now >= Ttl
  /\ \E q \in Queriers : cb[q].jobId = "job1" /\ cb[q].res = 200 /\ cb[q].upd = Job1

\* ---- the Airtable update of handleJobFailure fails ----------------------------------

\* updateRecordStatus rethrowing the error of the Airtable update, which the
\* catch of handleJobFailure would not stop from reaching the position of a
\* thrown processCallback.
HfAirtableRejectedThrowing(p) ==
  /\ cb[p].pc = "hf_airtable"
  /\ SetCb(p, Finish(cb[p], "threw"))
  /\ UNCHANGED <<now, redisVars, sent, airtable, hosted, videoVars, maxConcurrentJobs>>

\* handleJobFailure: the Airtable update of updateRecordStatus(recordId,
\* 'Failed', errorMessage) rejects; updateRecordStatus logs the error and
\* returns, and handleJobFailure returns.
HfAirtableRejected(p) ==
  /\ cb[p].pc = "hf_airtable"
  /\ SetCb(p, Finish(cb[p], cb[p].hfRet))
  /\ UNCHANGED <<now, redisVars, sent, airtable, hosted, videoVars, maxConcurrentJobs>>

\* One job and its callbacks one at a time, while time passes and the Airtable
\* update of the failure handler may fail.
NextNotify ==
  \/ NextTtl
  \/ HfAirtableRejected(1)

SpecNotify == Init /\ [][NextNotify]_vars

\* C33: when handleJobFailure is about to notify Airtable, the job, if stored,
\* is failed with the reason of this call; and the notification step, failed
\* or not, changes no job record and ends handleJobFailure as it ends after a
\* notification that succeeded.
C33_FailedRecordedBeforeNotify ==
  /\ [](\A p \in Callbacks :
          cb[p].pc = "hf_airtable"
          => \A job \in getJob(cb[p].jobId) :
                job.status = "failed" /\ job.error = cb[p].errorMessage)
  /\ [][\A p \in Callbacks :
          (cb[p].pc = "hf_airtable" /\ cb'[p].pc # cb[p].pc)
          => (UNCHANGED <<jobs, jobExp>> /\ cb'[p].pc = cb[p].hfRet)]_vars

\* A failure callback was handled, the Airtable update failed, the callback
\* returned, and the job is failed.
C33_Witness ==
  \E p \in Callbacks :
     /\ cb[p].pc = "returned"
     /\ cb[p].taskId = "t1"
     /\ sent["t1"] = <<[state |-> "fail", resultUrl |-> FALSE, failMsg |-> "quota exceeded"]>>
     /\ Job1.status = "failed"
     /\ Job1.recordId = "rec1"
     /\ airtable["rec1"].Status # "Failed"
     /\ airtable["rec1"].Error = Null

\* C34: with Redis configured, once a createTask of the dispatch has failed no
\* task of the job is mapped, every callback returns at the mapping lookup,
\* no step of a callback changes a job record, the Airtable records or the
\* files, and the job is failed when the dispatch is answered.
C34_OrphanCallbackHasNoEffect ==
  /\ [](\A d \in Dispatchers :
          (redis /\ SubmissionFailed(d))
          => /\ \A t \in TaskIds : getJobFromTask(t) = {}
             /\ \A p \in Callbacks : cb[p].pc \in {"idle", "cb_getJobFromTask", "returned"}
             /\ files = {}
             /\ cb[d].pc = "res500" => Job1.status = "failed")
  /\ [][\A d \in Dispatchers, p \in Callbacks :
          (redis /\ SubmissionFailed(d) /\ cb'[p] # cb[p])
          => UNCHANGED <<jobs, jobExp, airtable, hosted, files>>]_vars

\* The second submission failed, the dispatch was answered 500 with the job
\* failed, and the success callback of the first task has returned without a
\* stored URL.
C34_Witness ==
  /\ redis
  /\ \A d \in Dispatchers : cb[d].pc = "res500" /\ cb[d].created = <<"done", "failed">>
  /\ sent["t1"] = <<SuccessPayload>>
  /\ \E p \in Callbacks : cb[p].pc = "returned" /\ cb[p].taskId = "t1"
  /\ Job1.status = "failed"
  /\ Job1.video1Url = Null

\* The positions of a caller inside processVideos.
ProcessVideosPcs == {"pv_download", "wcc_queued", "pv_deleteFiles", "pv_catch_deleteFiles"}
                      \cup MergePcs

\* C35: two callers that are inside processVideos at the same time use
\* different paths for their downloaded inputs and for their stitched output.
C35_DistinctFilePaths ==
  \A p, q \in Callers :
     (p # q /\ cb[p].pc \in ProcessVideosPcs /\ cb[q].pc \in ProcessVideosPcs)
     => /\ InputPaths(cb[p]) \cap InputPaths(cb[q]) = {}
        /\ StitchedPath(cb[p].timestamp) # StitchedPath(cb[q].timestamp)

\* C36: the redis.set of the dispatch's updateJob({ taskId1, taskId2, status:
\* 'generating' }) keeps the video URLs the job record holds and does not
\* move a processing job back to generating.
C36_DispatchKeepsSlotResults ==
  [][\A d \in Dispatchers :
        (cb[d].pc = "gs_update_write" /\ cb'[d].pc # cb[d].pc)
        => /\ jobs'[cb[d].jobId].video1Url = jobs[cb[d].jobId].video1Url
           /\ jobs'[cb[d].jobId].video2Url = jobs[cb[d].jobId].video2Url
           /\ jobs[cb[d].jobId].status = "processing"
                => jobs'[cb[d].jobId].status = "processing"]_vars

\* C37: an operation that waited starts only as the head of the queue, which
\* is then shifted; an operation starts without waiting only when nothing is
\* queued; operations wait only while one is running; and the queue changes
\* only by an append at its end or by the shift of its head.
C37_QueueIsFifo ==
  /\ [](queue # <<>> => isProcessing)
  /\ [][/\ \A p \in Callers :
             (cb[p].pc \notin MergePcs /\ cb'[p].pc \in MergePcs)
             => IF cb[p].pc = "wcc_queued"
                THEN queue # <<>> /\ Head(queue) = p /\ queue' = Tail(queue)
                ELSE queue = <<>> /\ queue' = <<>>
        /\ queue' # queue
             => \/ queue # <<>> /\ queue' = Tail(queue)
                \/ \E p \in Callers : queue' = Append(queue, p)]_vars

\* Two operations were queued behind a running one; that one has just ended,
\* the first queued is running and the second still waits.
C37_Witness ==
  \E p, q, r \in Callers :
     /\ cb[p].pc = "pv_deleteFiles"
     /\ cb[q].pc \in MergePcs
     /\ cb[r].pc = "wcc_queued"
     /\ queue = <<r>>
     /\ isProcessing

\* The promise withConcurrencyControl returned to p has been settled.
Settled(p) ==
  /\ cb[p].dl = <<"done", "done">>
  /\ cb[p].pc \notin MergePcs \cup {"pv_download", "wcc_queued"}

\* C38: a caller gets the stitched path only when its own ffmpeg run has
\* ended and the rejection only when its own ffmpeg run has failed; a waiting
\* caller leaves the queue only by the start of its own operation; and a
\* caller whose promise is settled is not queued or run again.
C38_OwnOutcomeOnly ==
  [][\A p \in Callers :
        /\ (cb'[p].pc = "pv_deleteFiles" /\ cb[p].pc # "pv_deleteFiles")
           => /\ cb[p].pc = "sv_end_remove"
              /\ cb'[p].stitchedVideoPath = StitchedPath(cb[p].timestamp)
        /\ (cb'[p].pc = "pv_catch_deleteFiles" /\ cb[p].pc # "pv_catch_deleteFiles")
           => /\ cb[p].pc = "sv_error_remove_output"
              /\ cb'[p].stitchedVideoPath = Null
        /\ (cb[p].pc = "wcc_queued" /\ cb'[p].pc # "wcc_queued")
           => cb'[p].pc = "sv_writeFile"
        /\ Settled(p) => Settled(p)']_vars

\* The merge of one caller has just failed and released the slot, and the
\* merge of another caller, running now, has ended successfully.
C38_Witness ==
  \E p, q \in Callers :
     /\ cb[p].pc = "pv_catch_deleteFiles"
     /\ cb[p].stitchedVideoPath = Null
     /\ cb[q].pc = "sv_end_remove"
     /\ isProcessing

\* The payload reports no failure and carries no result URL of a successful
\* task: an intermediate state, or state success without a URL.
NoOutcome(data) == data.state # "fail" /\ ~(data.state = "success" /\ data.resultUrl)

\* C39: a callback without outcome for a task of a stored job enters
\* handleJobFailure with the reason 'generation completed but no URL found',
\* and the updateJob of that handleJobFailure stores the job as failed with
\* that reason.
C39_NoOutcomeFailsJob ==
  [][\A p \in Callbacks :
        /\ (cb[p].pc = "cb_getJob" /\ cb'[p].pc # cb[p].pc
              /\ NoOutcome(cb[p].data) /\ getJob(cb[p].jobId) # {})
           => /\ cb'[p].pc = "hf_read"
              /\ cb'[p].errorMessage =
                   "Video " \o ToString(cb[p].videoNumber)
                     \o " generation completed but no URL found"
              /\ cb'[p].hfRecordId = jobs[cb[p].jobId].recordId
        /\ (cb[p].pc = "hf_write" /\ cb'[p].pc # cb[p].pc /\ NoOutcome(cb[p].data))
           => /\ jobs'[cb[p].jobId].status = "failed"
              /\ jobs'[cb[p].jobId].error = cb[p].errorMessage]_vars

\* The callback of t2 arrived in an intermediate state while video 1 was
\* stored, and the job is failed.
C39_Witness ==
  \E p \in Callbacks :
     /\ cb[p].pc = "returned" /\ cb[p].taskId = "t2" /\ ~cb[p].late
     /\ sent["t2"] = <<[state |-> "generating", resultUrl |-> FALSE, failMsg |-> Null]>>
     /\ Job1.status = "failed"
     /\ Job1.error = "Video 2 generation completed but no URL found"
     /\ Job1.video1Url # Null
     /\ Job1.video2Url = Null

====
